---- MODULE Spec2Model ----
(***************************************************************************)
(* Model of simphony/core/base.py: the module-level `models` dictionary,   *)
(* the UniqueModelName descriptor, ComponentModel and ComponentInstance.   *)
(*                                                                         *)
(* Python values are represented as follows.                               *)
(*   - a ComponentModel object is an index into `heap`; the index 0 is the *)
(*     Python value None where a model reference is expected;              *)
(*   - an s-parameter value is a tuple: <<>> is None, <<f, s>> is a pair   *)
(*     (frequency sequence, matrix sequence);                              *)
(*   - a keyword-argument dictionary is a function from a set of keys;     *)
(*   - the outcome of a call is a record [exc, value]: exc = "" for a      *)
(*     normal return of `value`, otherwise the name of the exception.      *)
(***************************************************************************)
EXTENDS Integers, Sequences, FiniteSets, TLC

\* ---- bounds of the model ------------------------------------------------
\* the number of objects (models and instances together) a run creates; one
\* of them at least is left to be an instance
MaxObjects == 3
MaxModels == MaxObjects - 1
\* the number of threads that construct a model concurrently
NumThreads == 2

\* ---- input domains ------------------------------------------------------
NoName == "None"
Names == {"wg1", "rr"}
NoData == <<>>
Pair1 == << <<1, 2>>, <<10, 20>> >>
Pair2 == << <<1, 2>>, <<30, 40>> >>
\* the s_parameters arguments a model of a given name is constructed with:
\* none, or the data of that device
DataOf(n) == IF n = "wg1" THEN Pair1 ELSE Pair2
SParams(n) == {NoData, DataOf(n)}
NoFn == "None"
CustomFns == {"new_s_parameters"}
\* the parameters of the computation of the docstring example, and the keyword
\* arguments calls are made with: none, or a value for each of the three
Keys == {"length", "width", "thickness"}
Vals == {1, 2, 3}
EmptyKwargs == [k \in {} |-> 1]
FullKwargs == [k \in Keys |-> IF k = "length" THEN 1 ELSE IF k = "width" THEN 2 ELSE 3]
KwargsSet == {EmptyKwargs, FullKwargs}
NetsSet == {<<1, 2>>}
LaySet == {0}

VARIABLES
    names,      \* UniqueModelName._names
    descName,   \* the `name` attribute of the descriptor ComponentModel.component_type
    models,     \* the module-level dictionary `models`
    heap,       \* the attributes of every ComponentModel whose __init__ returned
    ctorArgs,   \* history: what each of those models was constructed with (the data
                \* argument of a non-cachable model, which __init__ drops, is not kept)
    live,       \* history: names successfully constructed since the last clear_models()
    attempted,  \* history: names a construction was attempted with since then
    instances,  \* the ComponentInstance objects
    last,       \* the most recent call and its outcome
    threads,    \* concurrent constructions: where each thread is in __init__
    serialized  \* whether the callers serialize their constructions

vars == <<names, descName, models, heap, ctorArgs, live, attempted, instances, last,
          threads, serialized>>
raceVars == <<threads, serialized>>

ModelIds == 1..Len(heap)
CanAllocate == Len(heap) + Len(instances) < MaxObjects
CanAllocateModel == CanAllocate /\ Len(heap) < MaxModels
InstanceIds == 1..Len(instances)

Return(v) == [exc |-> "", value |-> v]
Raise(e) == [exc |-> e, value |-> <<>>]

Threads == 1..NumThreads
Idle == [pc |-> "idle", name |-> NoName, s_parameters |-> NoData, cachable |-> FALSE,
         out |-> Return(<<>>)]

NoCall == [op |-> "none", name |-> NoName, id |-> 0, kwargs |-> <<>>, out |-> Return(<<>>)]

\* ---- UniqueModelName ----------------------------------------------------
\* __get__: the descriptor returns its own `name`, whatever object is read.
UniqueModelName_get(obj) == descName

\* variant: the uniqueness test never finds the name
IsDuplicate_never(value) == FALSE

\* __set__, line 29: the uniqueness test.
IsDuplicate(value) == value \in names

\* variant: the name is never recorded
add_name_dropped(name) == names

\* _add_name
add_name(name) == names \cup {name}

\* ---- ComponentModel -----------------------------------------------------
\* reading m.component_type goes through the descriptor
component_type(m) == UniqueModelName_get(m)

\* variant: cachable is not tested against the data
init_outcome_unchecked(n, s, c) ==
    IF IsDuplicate(n) THEN Raise("DuplicateModelError") ELSE Return(<<>>)

\* outcome of ComponentModel.__init__
init_outcome(n, s, c) ==
    IF IsDuplicate(n) THEN Raise("DuplicateModelError")
    ELSE IF c /\ s = NoData THEN Raise("ValueError")
    ELSE Return(<<>>)

\* models[component_type] = self
models_set(n, self) ==
    [k \in DOMAIN models \cup {n} |-> IF k = n THEN self ELSE models[k]]

\* variant: the data is never stored
NewModel_nodata(s, c) ==
    [cachable |-> c, s_parameters |-> NoData, get_s_parameters |-> NoFn]

\* the object __init__ builds: s_parameters is stored only when cachable
NewModel(s, c) ==
    [cachable |-> c,
     s_parameters |-> IF c THEN s ELSE NoData,
     get_s_parameters |-> NoFn]

\* variant: no test of `cachable`; a model without the attribute fails on the read
get_s_parameters_untested(self, kwargs) ==
    IF heap[self].s_parameters # NoData
    THEN Return(heap[self].s_parameters)
    ELSE Raise("AttributeError")

\* the default ComponentModel.get_s_parameters
get_s_parameters(self, kwargs) ==
    IF heap[self].cachable
    THEN Return(heap[self].s_parameters)
    ELSE Raise("NotImplementedError")

\* a computation a model author attaches (docstring example): called with
\* keyword arguments it requires exactly its three parameters, and it returns
\* "some calculation based on parameters", here a pair computed from length
new_s_parameters(kwargs) ==
    IF DOMAIN kwargs = Keys
    THEN Return(<< <<1, 2>>, <<kwargs["length"], 2 * kwargs["length"]>> >>)
    ELSE Raise("TypeError")

\* attribute lookup m.get_s_parameters(**kwargs): an attribute assigned on the
\* object shadows the method of the class
call_get_s_parameters(m, kwargs) ==
    IF heap[m].get_s_parameters = NoFn
    THEN get_s_parameters(m, kwargs)
    ELSE new_s_parameters(kwargs)

\* __eq__ of two ComponentModel objects: both names are read through the descriptor
ComponentModel_eq(self, other) ==
    /\ component_type(self) = component_type(other)
    /\ heap[self].cachable = heap[other].cachable

\* __hash__: the hash of the tuple (component_type, component_type); a hash is a
\* function of the tuple's value, which stands for it here
ComponentModel_hash(self) == <<component_type(self), component_type(self)>>

\* ---- ComponentInstance --------------------------------------------------
\* variant: an instance without a model returns nothing instead of failing
instance_get_s_parameters_nomodel(i) ==
    IF instances[i].model = 0
    THEN Return(NoData)
    ELSE call_get_s_parameters(instances[i].model, instances[i].extras)

\* variant: the model is looked up in `models` by its name at every call
instance_get_s_parameters_by_name(i) ==
    IF instances[i].model = 0
    THEN Raise("AttributeError")
    ELSE call_get_s_parameters(models[ctorArgs[instances[i].model].component_type],
                               instances[i].extras)

\* variant: the extras are not passed on
instance_get_s_parameters_noextras(i) ==
    IF instances[i].model = 0
    THEN Raise("AttributeError")
    ELSE call_get_s_parameters(instances[i].model, EmptyKwargs)

instance_get_s_parameters(i) ==
    IF instances[i].model = 0
    THEN Raise("AttributeError")
    ELSE call_get_s_parameters(instances[i].model, instances[i].extras)

\* ---- initial state ------------------------------------------------------
Init ==
    /\ names = {}
    /\ descName = NoName
    /\ models = [n \in {} |-> 0]
    /\ heap = <<>>
    /\ ctorArgs = <<>>
    /\ live = {}
    /\ attempted = {}
    /\ instances = <<>>
    /\ last = NoCall
    /\ threads = [t \in Threads |-> Idle]
    /\ serialized = TRUE

\* ---- operations ---------------------------------------------------------
\* variant: the set of names is rebound locally too
clear_models_local_names ==
    /\ live' = {}
    /\ attempted' = {}
    /\ last' = [NoCall EXCEPT !.op = "clear_models"]
    /\ UNCHANGED <<names, models, descName, heap, ctorArgs, instances>>
    /\ UNCHANGED raceVars

\* clear_models(): `models = {}` binds a local name, the module-level
\* dictionary is untouched; UniqueModelName._names is rebound to a new set.
clear_models ==
    /\ names' = {}
    /\ models' = models
    /\ live' = {}
    /\ attempted' = {}
    /\ last' = [NoCall EXCEPT !.op = "clear_models"]
    /\ UNCHANGED <<descName, heap, ctorArgs, instances>>
    /\ UNCHANGED raceVars

\* variant: the model is entered in `models` before its name is assigned
ComponentModel_init_register_first(n, s, c) ==
    LET out == init_outcome(n, s, c)
        self == Len(heap) + 1
    IN  /\ CanAllocateModel
        /\ last' = [NoCall EXCEPT !.op = "ComponentModel", !.name = n,
                       !.id = IF out.exc = "" THEN self ELSE 0, !.out = out]
        /\ heap' = Append(heap, NewModel(s, c))
        /\ ctorArgs' = Append(ctorArgs, [component_type |-> n, cachable |-> c,
                                         s_parameters |-> IF c THEN s ELSE NoData])
        /\ models' = models_set(n, self)
        /\ IF out.exc = "DuplicateModelError"
           THEN UNCHANGED <<names, descName>>
           ELSE names' = add_name(n) /\ descName' = n
        /\ live' = IF out.exc = "" THEN live \cup {n} ELSE live
        /\ attempted' = attempted \cup {n}
        /\ UNCHANGED instances
        /\ UNCHANGED raceVars

\* ComponentModel(component_type, s_parameters, cachable)
ComponentModel_init(n, s, c) ==
    LET out == init_outcome(n, s, c)
        self == Len(heap) + 1
    IN  /\ out.exc = "" => CanAllocateModel
        /\ last' = [NoCall EXCEPT !.op = "ComponentModel", !.name = n,
                       !.id = IF out.exc = "" THEN self ELSE 0, !.out = out]
        /\ IF out.exc = "DuplicateModelError"
           THEN UNCHANGED <<names, descName, models, heap, ctorArgs, live>>
           ELSE /\ names' = add_name(n)
                /\ descName' = n
                /\ IF out.exc = "ValueError"
                   THEN UNCHANGED <<models, heap, ctorArgs, live>>
                   ELSE /\ heap' = Append(heap, NewModel(s, c))
                        /\ models' = models_set(n, self)
                        /\ ctorArgs' = Append(ctorArgs,
                               [component_type |-> n, cachable |-> c,
                                s_parameters |-> IF c THEN s ELSE NoData])
                        /\ live' = live \cup {n}
        /\ attempted' = attempted \cup {n}
        /\ UNCHANGED instances
        /\ UNCHANGED raceVars

\* variant: a failed retrieval removes the model from `models`
ModelGetSParameters_unregister(m, kwargs) ==
    LET out == call_get_s_parameters(m, kwargs)
    IN  /\ last' = [NoCall EXCEPT !.op = "get_s_parameters", !.id = m, !.kwargs = kwargs,
                       !.out = out]
        /\ models' = IF out.exc = ""
                     THEN models
                     ELSE [k \in {n \in DOMAIN models : models[n] # m} |-> models[k]]
        /\ UNCHANGED <<names, descName, heap, ctorArgs, live, attempted, instances>>
        /\ UNCHANGED raceVars

\* m.get_s_parameters(**kwargs)
ModelGetSParameters(m, kwargs) ==
    /\ last' = [NoCall EXCEPT !.op = "get_s_parameters", !.id = m, !.kwargs = kwargs,
                   !.out = call_get_s_parameters(m, kwargs)]
    /\ UNCHANGED <<names, descName, models, heap, ctorArgs, live, attempted, instances>>
    /\ UNCHANGED raceVars

\* variant: the computation is assigned on the class, for every model
AttachCustom_class(m, f) ==
    /\ heap' = [k \in ModelIds |-> [heap[k] EXCEPT !.get_s_parameters = f]]
    /\ last' = [NoCall EXCEPT !.op = "attach", !.id = m]
    /\ UNCHANGED <<names, descName, models, ctorArgs, live, attempted, instances>>
    /\ UNCHANGED raceVars

\* m.get_s_parameters = new_s_parameters: an assignment on the object, which
\* the class accepts for any model
AttachCustom(m, f) ==
    /\ heap' = [heap EXCEPT ![m].get_s_parameters = f]
    /\ last' = [NoCall EXCEPT !.op = "attach", !.id = m]
    /\ UNCHANGED <<names, descName, models, ctorArgs, live, attempted, instances>>
    /\ UNCHANGED raceVars

\* variant: the default copy protocol, which builds a second object
Copy_default(m, how) ==
    /\ CanAllocate
    /\ heap' = Append(heap, heap[m])
    /\ ctorArgs' = Append(ctorArgs, ctorArgs[m])
    /\ last' = [NoCall EXCEPT !.op = how]
    /\ UNCHANGED <<names, descName, models, live, attempted, instances>>
    /\ UNCHANGED raceVars

\* copy.copy(m) and copy.deepcopy(m)
Copy(m, how) ==
    /\ last' = [NoCall EXCEPT !.op = how, !.out = Raise("DuplicateModelError")]
    /\ UNCHANGED <<names, descName, models, heap, ctorArgs, live, attempted, instances>>
    /\ UNCHANGED raceVars

\* ComponentInstance(model, nets, lay_x, lay_y, extras); a nets or extras
\* argument of None is replaced by the empty list or dictionary
ComponentInstance_init(model, nets, lay_x, lay_y, extras) ==
    /\ CanAllocate
    /\ instances' = Append(instances,
           [model |-> model, nets |-> nets, lay_x |-> lay_x, lay_y |-> lay_y,
            extras |-> extras])
    /\ last' = [NoCall EXCEPT !.op = "ComponentInstance", !.id = Len(instances) + 1]
    /\ UNCHANGED <<names, descName, models, heap, ctorArgs, live, attempted>>
    /\ UNCHANGED raceVars

\* instance.get_s_parameters()
InstanceGetSParameters(i) ==
    /\ last' = [NoCall EXCEPT !.op = "instance.get_s_parameters", !.id = i,
                   !.out = instance_get_s_parameters(i)]
    /\ UNCHANGED <<names, descName, models, heap, ctorArgs, live, attempted, instances>>
    /\ UNCHANGED raceVars

Construct == \E n \in Names : \E s \in SParams(n), c \in BOOLEAN : ComponentModel_init(n, s, c)
Retrieve == \E m \in ModelIds, kw \in KwargsSet : ModelGetSParameters(m, kw)
Attach == \E m \in ModelIds, f \in CustomFns : AttachCustom(m, f)
CopyModel == \E m \in ModelIds, how \in {"copy", "deepcopy"} : Copy(m, how)
Place == \E m \in ModelIds \cup {0}, nets \in NetsSet, x \in LaySet, y \in LaySet,
            e \in KwargsSet : ComponentInstance_init(m, nets, x, y, e)
InstanceRetrieve == \E i \in InstanceIds : InstanceGetSParameters(i)

Next ==
    \/ clear_models
    \/ Construct
    \/ Retrieve
    \/ Attach
    \/ CopyModel
    \/ Place
    \/ InstanceRetrieve

Spec == Init /\ [][Next]_vars

\* ---- concurrent constructions -------------------------------------------
\* Threads call ComponentModel(...) at the same time; a thread may be
\* suspended between any two statements of __init__ and __set__.  Only the
\* shared state is modelled: the attributes a thread writes on its own object
\* become visible when the object is entered in `models`.
Busy(t) == threads[t].pc \notin {"idle", "done"}

\* with external serialization a construction starts only when none is under way
MayEnter(t) == serialized => \A u \in Threads : ~Busy(u)

sharedRest == <<instances, last, serialized>>

\* a thread calls ComponentModel(n, s, c)
T_call(t, n, s, c) ==
    /\ threads[t].pc = "idle"
    /\ MayEnter(t)
    /\ threads' = [threads EXCEPT ![t] =
           [pc |-> "check", name |-> n, s_parameters |-> s, cachable |-> c,
            out |-> Return(<<>>)]]
    /\ UNCHANGED <<names, descName, models, heap, ctorArgs, live, attempted, sharedRest>>

\* __set__: `if value in self._names: raise DuplicateModelError(value)`
T_check(t) ==
    /\ threads[t].pc = "check"
    /\ threads' = IF IsDuplicate(threads[t].name)
                  THEN [threads EXCEPT ![t].pc = "done",
                                       ![t].out = Raise("DuplicateModelError")]
                  ELSE [threads EXCEPT ![t].pc = "add"]
    /\ attempted' = attempted \cup {threads[t].name}
    /\ UNCHANGED <<names, descName, models, heap, ctorArgs, live, sharedRest>>

\* __set__: `self._add_name(value)`
T_add_name(t) ==
    /\ threads[t].pc = "add"
    /\ names' = add_name(threads[t].name)
    /\ threads' = [threads EXCEPT ![t].pc = "setname"]
    /\ UNCHANGED <<descName, models, heap, ctorArgs, live, attempted, sharedRest>>

\* __set__: `self.name = value`
T_set_name(t) ==
    /\ threads[t].pc = "setname"
    /\ descName' = threads[t].name
    /\ threads' = [threads EXCEPT ![t].pc = "validate"]
    /\ UNCHANGED <<names, models, heap, ctorArgs, live, attempted, sharedRest>>

\* __init__: the test of cachable against s_parameters
T_validate(t) ==
    /\ threads[t].pc = "validate"
    /\ threads' = IF threads[t].cachable /\ threads[t].s_parameters = NoData
                  THEN [threads EXCEPT ![t].pc = "done", ![t].out = Raise("ValueError")]
                  ELSE [threads EXCEPT ![t].pc = "insert"]
    /\ UNCHANGED <<names, descName, models, heap, ctorArgs, live, attempted, sharedRest>>

\* __init__: `models[component_type] = self`, and __init__ returns
T_insert(t) ==
    LET self == Len(heap) + 1
        th == threads[t]
    IN  /\ th.pc = "insert"
        /\ heap' = Append(heap, NewModel(th.s_parameters, th.cachable))
        /\ ctorArgs' = Append(ctorArgs,
               [component_type |-> th.name, cachable |-> th.cachable,
                s_parameters |-> IF th.cachable THEN th.s_parameters ELSE NoData])
        /\ models' = models_set(th.name, self)
        /\ live' = live \cup {th.name}
        /\ threads' = [threads EXCEPT ![t].pc = "done"]
        /\ UNCHANGED <<names, descName, attempted, sharedRest>>

Call == \E t \in Threads, n \in Names : \E s \in SParams(n), c \in BOOLEAN : T_call(t, n, s, c)
Check == \E t \in Threads : T_check(t)
AddName == \E t \in Threads : T_add_name(t)
SetName == \E t \in Threads : T_set_name(t)
Validate == \E t \in Threads : T_validate(t)
Insert == \E t \in Threads : T_insert(t)

InitRace ==
    /\ names = {}
    /\ descName = NoName
    /\ models = [n \in {} |-> 0]
    /\ heap = <<>>
    /\ ctorArgs = <<>>
    /\ live = {}
    /\ attempted = {}
    /\ instances = <<>>
    /\ last = NoCall
    /\ threads = [t \in Threads |-> Idle]
    /\ serialized \in BOOLEAN

NextRace ==
    \/ Call
    \/ Check
    \/ AddName
    \/ SetName
    \/ Validate
    \/ Insert

SpecRace == InitRace /\ [][NextRace]_vars

\* ---- properties ---------------------------------------------------------
Constructed(call) == call.op = "ComponentModel"
Retrieved(call) == call.op = "get_s_parameters"
Copied(call) == call.op \in {"copy", "deepcopy"}
InstanceRetrieved(call) == call.op = "instance.get_s_parameters"
Failed(call, e) == call.out = Raise(e)
Attached(m) == heap[m].get_s_parameters # NoFn

\* C1: between two calls of clear_models(), a construction under a name that a
\* model was successfully constructed with fails with DuplicateModelError.
C1_NameStaysTaken ==
    [][(Constructed(last') /\ last'.name \in live)
           => Failed(last', "DuplicateModelError")]_vars

\* a duplicate is refused after a model of another name was constructed
C1_Witness ==
    /\ Constructed(last) /\ Failed(last, "DuplicateModelError")
    /\ last.name \in live
    /\ Len(heap) >= 2
    /\ ctorArgs[Len(heap)].component_type # last.name

\* C2: a construction that fails with DuplicateModelError leaves the set of
\* names, the mapping and the models as they were, and the mapping entry of a
\* name taken by a model still refers to the model constructed under it.
C2_DuplicateLeavesRegistry ==
    [][(Constructed(last') /\ Failed(last', "DuplicateModelError"))
           => /\ names' = names
              /\ models' = models
              /\ heap' = heap
              /\ last'.name \in live =>
                    /\ last'.name \in DOMAIN models'
                    /\ ctorArgs[models'[last'.name]].component_type = last'.name]_vars

\* a duplicate of a registered cachable model is refused
C2_Witness ==
    /\ Constructed(last) /\ Failed(last, "DuplicateModelError")
    /\ last.name \in live
    /\ last.name \in DOMAIN models
    /\ ctorArgs[models[last.name]].s_parameters = Pair1

\* C3: after a construction failed with ValueError (cachable without data) its
\* name is not in the set of reserved names.
C3_ValueErrorBeforeRegistration ==
    (Constructed(last) /\ Failed(last, "ValueError")) => last.name \notin names

\* C4: right after clear_models() the mapping and the set of names are empty.
C4_ClearEmptiesBoth ==
    last.op = "clear_models" => (names = {} /\ DOMAIN models = {})

\* C5: the first construction under a name after clear_models() succeeds when
\* its arguments are valid, and the mapping entry of the name is then the new
\* model; the entry changes only when a model is constructed under the name.
C5_ReuseAfterClear ==
    /\ [][(Constructed(last') /\ last'.name \notin attempted
              /\ ~Failed(last', "ValueError"))
             => /\ last'.out.exc = ""
                /\ last'.id = Len(heap) + 1 /\ Len(heap') = Len(heap) + 1
                /\ last'.name \in DOMAIN models'
                /\ models'[last'.name] = last'.id]_vars
    /\ [][\A n \in DOMAIN models :
             /\ n \in DOMAIN models'
             /\ models'[n] # models[n]
                  => /\ Constructed(last') /\ last'.out.exc = "" /\ last'.name = n
                     /\ models'[n] = last'.id]_vars

\* a name registered before the reset is registered again with the same data
C5_Witness ==
    /\ Constructed(last) /\ last.out.exc = ""
    /\ models[last.name] = last.id
    /\ \E m \in ModelIds : m < last.id /\ ctorArgs[m] = ctorArgs[last.id]

\* C6: reading component_type of a model gives the name it was constructed with.
C6_IdentityImmutable ==
    \A m \in ModelIds : component_type(m) = ctorArgs[m].component_type

\* C7: a model constructed with cachable=True (whose get_s_parameters was not
\* reassigned) returns the pair it was constructed with, for every keyword
\* parameters, whatever was constructed, copied, cleared or attached to other
\* models meanwhile.
C7_CachableReturnsData ==
    /\ \A m \in ModelIds : \A kw \in KwargsSet :
          (ctorArgs[m].cachable /\ ~Attached(m))
              => call_get_s_parameters(m, kw) = Return(ctorArgs[m].s_parameters)
    /\ (Retrieved(last) /\ ctorArgs[last.id].cachable /\ ~Attached(last.id))
          => last.out = Return(ctorArgs[last.id].s_parameters)

\* a retrieval with keyword parameters, with another model holding other data
C7_Witness ==
    /\ Retrieved(last) /\ ctorArgs[last.id].cachable /\ ~Attached(last.id)
    /\ last.kwargs # EmptyKwargs
    /\ last.out = Return(Pair2)
    /\ \E m \in ModelIds : ctorArgs[m].cachable /\ ctorArgs[m].s_parameters = Pair1

\* C8: a model constructed with cachable=False that has no computation
\* attached fails with NotImplementedError for every keyword parameters.
C8_NonCachableNotImplemented ==
    /\ \A m \in ModelIds : \A kw \in KwargsSet :
          (~ctorArgs[m].cachable /\ heap[m].get_s_parameters = NoFn)
              => call_get_s_parameters(m, kw) = Raise("NotImplementedError")
    /\ (Retrieved(last) /\ ~ctorArgs[last.id].cachable
           /\ heap[last.id].get_s_parameters = NoFn)
          => Failed(last, "NotImplementedError")

C8_Witness ==
    /\ Retrieved(last) /\ ~ctorArgs[last.id].cachable
    /\ heap[last.id].get_s_parameters = NoFn
    /\ last.kwargs # EmptyKwargs
    /\ Failed(last, "NotImplementedError")

\* C9: a shallow or deep copy fails with DuplicateModelError, creates no model
\* and leaves the set of names and the mapping as they were.
C9_CopyAlwaysFails ==
    [][Copied(last')
          => /\ Failed(last', "DuplicateModelError")
             /\ heap' = heap
             /\ names' = names
             /\ models' = models]_vars

C9_Witness ==
    /\ last.op = "deepcopy" /\ Failed(last, "DuplicateModelError")
    /\ Len(heap) = 2

\* C10: the outcome of instance.get_s_parameters() is the outcome of
\* model.get_s_parameters(**extras): the stored pair of a cachable model,
\* NotImplementedError of a non-cachable model with no computation attached.
C10_InstanceDelegates ==
    (InstanceRetrieved(last) /\ instances[last.id].model # 0)
        => LET inst == instances[last.id]
           IN  /\ last.out = call_get_s_parameters(inst.model, inst.extras)
               /\ (ctorArgs[inst.model].cachable /\ ~Attached(inst.model))
                     => last.out = Return(ctorArgs[inst.model].s_parameters)
               /\ (~ctorArgs[inst.model].cachable
                      /\ heap[inst.model].get_s_parameters = NoFn)
                     => Failed(last, "NotImplementedError")

\* an instance with extras retrieves from a cachable model
C10_Witness ==
    /\ InstanceRetrieved(last) /\ instances[last.id].model # 0
    /\ instances[last.id].extras # EmptyKwargs
    /\ ctorArgs[instances[last.id].model].cachable
    /\ last.out = Return(Pair1)

\* C11: an instance whose model is unset fails in get_s_parameters(), whatever
\* its nets, coordinates and extras; it never returns a pair.
C11_NoModelFails ==
    /\ \A i \in InstanceIds :
          instances[i].model = 0
              => instance_get_s_parameters(i) = Raise("AttributeError")
    /\ (InstanceRetrieved(last) /\ instances[last.id].model = 0)
          => Failed(last, "AttributeError")

\* an instance with extras and nets but no model has failed, models existing
C11_Witness ==
    /\ InstanceRetrieved(last) /\ instances[last.id].model = 0
    /\ instances[last.id].extras # EmptyKwargs
    /\ instances[last.id].nets # <<>>
    /\ Len(heap) >= 1
    /\ Failed(last, "AttributeError")

\* C12: two models compare equal iff the names they were constructed with and
\* their cachable flags both match.
C12_EqualityByNameAndFlag ==
    \A m1 \in ModelIds, m2 \in ModelIds :
        ComponentModel_eq(m1, m2)
            <=> /\ ctorArgs[m1].component_type = ctorArgs[m2].component_type
                /\ ctorArgs[m1].cachable = ctorArgs[m2].cachable

\* C13: a model with a computation attached, and every instance of it, gives
\* the outcome of that computation on the keyword parameters supplied; attaching
\* it to one model changes the retrieval of no other model.
C13_Retrievals ==
    /\ (Retrieved(last) /\ Attached(last.id))
          => /\ last.out = new_s_parameters(last.kwargs)
             /\ ~Failed(last, "NotImplementedError")
    /\ (InstanceRetrieved(last) /\ instances[last.id].model # 0
           /\ Attached(instances[last.id].model))
          => /\ last.out = new_s_parameters(instances[last.id].extras)
             /\ ~Failed(last, "NotImplementedError")

C13_CustomComputation ==
    /\ []C13_Retrievals
    /\ [][last'.op = "attach"
            => /\ heap'[last'.id].get_s_parameters # NoFn
               /\ \A m \in ModelIds \ {last'.id} : \A kw \in KwargsSet :
                     call_get_s_parameters(m, kw)' = call_get_s_parameters(m, kw)]_vars

\* an instance of a model with a computation returns the computed pair while
\* another non-cachable model has none
C13_Witness ==
    /\ InstanceRetrieved(last) /\ instances[last.id].model # 0
    /\ Attached(instances[last.id].model)
    /\ ~ctorArgs[instances[last.id].model].cachable
    /\ instances[last.id].extras = FullKwargs
    /\ last.out = Return(<< <<1, 2>>, <<1, 2>> >>)
    /\ \E m \in ModelIds : ~heap[m].cachable /\ ~Attached(m)

\* C14: the keys of the mapping are the reserved names, in every state.
C14_MapMatchesNames ==
    DOMAIN models = names

\* C15: the hash of a model never changes after its construction (and equal
\* models have equal hashes).
C15_HashStable ==
    [][\A m \in ModelIds :
          /\ ComponentModel_hash(m)' = ComponentModel_hash(m)
          /\ \A m2 \in ModelIds :
                ComponentModel_eq(m, m2)
                    => ComponentModel_hash(m) = ComponentModel_hash(m2)]_vars

C16_CachableHasData ==
    \A n \in DOMAIN models :
        heap[models[n]].cachable => heap[models[n]].s_parameters # NoData

\* C16: every cachable model in the mapping holds data, and no operation
\* changes the cachable flag of a model.
C16_CachableInvariant ==
    /\ []C16_CachableHasData
    /\ [][\A m \in ModelIds : heap'[m].cachable = heap[m].cachable]_vars

\* a cachable construction without data was just refused, a cachable model
\* being registered
C16_Witness ==
    /\ Constructed(last) /\ Failed(last, "ValueError")
    /\ \E n \in DOMAIN models : heap[models[n]].cachable

\* C17: a retrieval that fails, on a model or on an instance, leaves the set of
\* names, the mapping and the models as they were.
C17_FailedRetrievalFrame ==
    [][((Retrieved(last') \/ InstanceRetrieved(last')) /\ last'.out.exc # "")
          => /\ names' = names
             /\ models' = models
             /\ heap' = heap
             /\ ctorArgs' = ctorArgs]_vars

\* a registered non-cachable model has failed to retrieve
C17_Witness ==
    /\ Retrieved(last) /\ Failed(last, "NotImplementedError")
    /\ ctorArgs[last.id].component_type \in names
    /\ models[ctorArgs[last.id].component_type] = last.id

\* C18: clear_models() and the constructions that follow change neither the
\* model an instance refers to nor the outcome of its get_s_parameters().
C18_ResetKeepsReferences ==
    [][(last'.op = "clear_models" \/ Constructed(last'))
          => \A i \in InstanceIds :
                /\ instances'[i] = instances[i]
                /\ instance_get_s_parameters(i)' = instance_get_s_parameters(i)]_vars

\* an instance of a cachable model returns its pair while the name of the
\* model is registered to a newer, non-cachable model
C18_Witness ==
    /\ InstanceRetrieved(last) /\ instances[last.id].model # 0
    /\ LET m == instances[last.id].model
       IN  /\ ctorArgs[m].cachable
           /\ last.out = Return(ctorArgs[m].s_parameters)
           /\ models[ctorArgs[m].component_type] > m
           /\ ~heap[models[ctorArgs[m].component_type]].cachable

Succeeded(t) == threads[t].pc = "done" /\ threads[t].out.exc = ""
BothSucceeded ==
    \E t \in Threads, u \in Threads :
        /\ t # u
        /\ threads[t].name = threads[u].name
        /\ Succeeded(t) /\ Succeeded(u)

\* C19: two constructions under one name both succeed only when their steps
\* interleave; when every construction runs as one serialized step they never
\* both succeed.
C19_SerializedIsAtomic ==
    BothSucceeded => ~serialized

\* two interleaved constructions under one name have both returned a model
C19_Witness ==
    /\ ~serialized
    /\ BothSucceeded
    /\ Len(heap) = 2
    /\ ctorArgs[1].component_type = ctorArgs[2].component_type
====
